---- MODULE Spec2Model ----
(***************************************************************************)
(* Model of the light-rail service-status alert job                        *)
(* (lightrail_service_status_alert.py + bigquery_interface.py).            *)
(*                                                                         *)
(* One run of main is a sequence of blocking calls: fetch_data, the table  *)
(* provisioning, then per feed entity process_response_alert, the          *)
(* existence query and the insert, and finally send_email.  Every call to  *)
(* an external collaborator (feed, BigQuery, SMTP) is one action whose     *)
(* outcome (a value or the exception the code names) is chosen             *)
(* nondeterministically.                                                   *)
(***************************************************************************)
EXTENDS Integers, Sequences, FiniteSets, TLC

\* ------------------------------------------------------------------ bounds
MaxFeedLen == 2      \* most entities in one feed payload
MaxRuns == 2         \* most invocations of main in one behaviour

\* --------------------------------------------------------------- constants
TARGET_ROUTE == "IWLR-191"
Runners == {1, 2}    \* invocations that may be in flight (2 only when overlapping)

\* Python's None, for a dict-valued result
None == [isNone |-> TRUE]

\* ---------------------------------------------------------- feed entities
\* A raw entity is a record; a key the feed left out is not in its DOMAIN.
Has(d, k) == k \in DOMAIN d

Translation(text) == [translation |-> <<[text |-> text]>>]

Route(routeId, directionId) == [routeId |-> routeId, directionId |-> directionId]

Entity(id, informed) ==
    [id |-> id,
     alert |-> [url |-> Translation("http://x"),
                headerText |-> Translation("Delays"),
                descriptionText |-> Translation(<<"<p>", "\n", "late", "</p>">>),
                activePeriod |-> <<[start |-> "1700000000", end |-> "1700003600"]>>,
                informedEntity |-> informed]]

\* an entity whose alert lacks the url key
EntityNoUrl(id) ==
    [id |-> id,
     alert |-> [headerText |-> Translation("Delays"),
                descriptionText |-> Translation(<<"late">>),
                activePeriod |-> <<>>,
                informedEntity |-> <<Route(TARGET_ROUTE, 0)>>]]

AlertIds == {"a1", "a2"}

\* two relevant alerts, an alert for another direction, a malformed entity
EntityPool ==
    {Entity("a1", <<Route(TARGET_ROUTE, 0)>>),
     Entity("a2", <<Route("L2", 0), Route(TARGET_ROUTE, 1)>>),
     Entity("a1", <<Route(TARGET_ROUTE, 2)>>),
     EntityNoUrl("a2")}

RECURSIVE SeqsUpTo(_, _)
SeqsUpTo(S, n) ==
    IF n = 0 THEN {<<>>}
    ELSE LET shorter == SeqsUpTo(S, n - 1)
         IN shorter \cup {Append(s, x) : s \in {t \in shorter : Len(t) = n - 1}, x \in S}

\* the parsed JSON documents fetch_data can return
Payloads == {[entity |-> es] : es \in SeqsUpTo(EntityPool, MaxFeedLen)}

\* ------------------------------------------------ process_response_alert
\* int(x) succeeds on these strings; strftime of the resulting datetime
EpochText == {"1700000000", "1700003600"}
Strftime(s) == IF s = "1700000000" THEN "2023-11-14 22:13:20" ELSE "2023-11-14 23:13:20"

\* entity["alert"]["activePeriod"][0]["start"], "NULL" on any exception
formatted_start_date(alert) ==
    IF /\ Has(alert, "activePeriod")
       /\ Len(alert.activePeriod) > 0
       /\ Has(alert.activePeriod[1], "start")
       /\ alert.activePeriod[1].start \in EpochText
    THEN Strftime(alert.activePeriod[1].start)
    ELSE "NULL"

\* mutant: one try block around both timestamps, a bad start takes the end with it
formatted_end_date_SharedTry(alert) ==
    IF /\ Has(alert, "activePeriod")
       /\ Len(alert.activePeriod) > 0
       /\ Has(alert.activePeriod[1], "start")
       /\ alert.activePeriod[1].start \in EpochText
       /\ Has(alert.activePeriod[Len(alert.activePeriod)], "end")
       /\ alert.activePeriod[Len(alert.activePeriod)].end \in EpochText
    THEN Strftime(alert.activePeriod[Len(alert.activePeriod)].end)
    ELSE "NULL"

\* entity["alert"]["activePeriod"][-1]["end"], "NULL" on any exception
formatted_end_date(alert) ==
    IF /\ Has(alert, "activePeriod")
       /\ Len(alert.activePeriod) > 0
       /\ Has(alert.activePeriod[Len(alert.activePeriod)], "end")
       /\ alert.activePeriod[Len(alert.activePeriod)].end \in EpochText
    THEN Strftime(alert.activePeriod[Len(alert.activePeriod)].end)
    ELSE "NULL"

\* mutant: the flag is assigned on every entry, so the last entry decides
RECURSIVE l1_line_impacted_LastWins(_, _)
l1_line_impacted_LastWins(lines, acc) ==
    IF lines = <<>> THEN acc
    ELSE LET line == Head(lines)
         IN l1_line_impacted_LastWins(Tail(lines),
               IF line.routeId = TARGET_ROUTE /\ line.directionId = 1 THEN TRUE
               ELSE IF line.routeId = TARGET_ROUTE /\ line.directionId = 0 THEN TRUE
               ELSE FALSE)

\* the loop over affected_lines_json, from flag value acc
RECURSIVE l1_line_impacted(_, _)
l1_line_impacted(lines, acc) ==
    IF lines = <<>> THEN acc
    ELSE LET line == Head(lines)
         IN l1_line_impacted(Tail(lines),
               IF line.routeId = TARGET_ROUTE /\ line.directionId = 1 THEN TRUE
               ELSE IF line.routeId = TARGET_ROUTE /\ line.directionId = 0 THEN TRUE
               ELSE acc)

\* x["translation"][0]["text"] can be read
HasFirstText(x) ==
    /\ Has(x, "translation")
    /\ Len(x.translation) > 0
    /\ Has(x.translation[1], "text")

\* str.replace("\n", "") on a text given as its sequence of fragments
StripNewlines(text) == SelectSeq(text, LAMBDA c : c # "\n")

\* every subscript of the outer try block succeeds
Extractable(entity) ==
    /\ Has(entity, "id")
    /\ Has(entity, "alert")
    /\ Has(entity.alert, "url") /\ HasFirstText(entity.alert.url)
    /\ Has(entity.alert, "headerText") /\ HasFirstText(entity.alert.headerText)
    /\ Has(entity.alert, "descriptionText") /\ HasFirstText(entity.alert.descriptionText)
    /\ Has(entity.alert, "informedEntity")
    /\ \A i \in 1..Len(entity.alert.informedEntity) :
          /\ Has(entity.alert.informedEntity[i], "routeId")
          /\ entity.alert.informedEntity[i].routeId = TARGET_ROUTE
                => Has(entity.alert.informedEntity[i], "directionId")

\* mutant: the url is read with a default instead of a subscript
process_response_alert_UrlOptional(entity) ==
    IF /\ Has(entity, "id")
       /\ Has(entity, "alert")
       /\ Has(entity.alert, "headerText") /\ HasFirstText(entity.alert.headerText)
       /\ Has(entity.alert, "descriptionText") /\ HasFirstText(entity.alert.descriptionText)
       /\ Has(entity.alert, "informedEntity")
       /\ \A i \in 1..Len(entity.alert.informedEntity) :
             /\ Has(entity.alert.informedEntity[i], "routeId")
             /\ entity.alert.informedEntity[i].routeId = TARGET_ROUTE
                   => Has(entity.alert.informedEntity[i], "directionId")
    THEN [alert_id |-> entity.id,
          url |-> IF Has(entity.alert, "url") /\ HasFirstText(entity.alert.url)
                  THEN entity.alert.url.translation[1].text
                  ELSE "",
          title |-> entity.alert.headerText.translation[1].text,
          description_html |-> StripNewlines(entity.alert.descriptionText.translation[1].text),
          formatted_start_date |-> formatted_start_date(entity.alert),
          formatted_end_date |-> formatted_end_date(entity.alert),
          l1_line_impacted |-> l1_line_impacted(entity.alert.informedEntity, FALSE)]
    ELSE None

process_response_alert(entity) ==
    IF Extractable(entity)
    THEN [alert_id |-> entity.id,
          url |-> entity.alert.url.translation[1].text,
          title |-> entity.alert.headerText.translation[1].text,
          description_html |-> StripNewlines(entity.alert.descriptionText.translation[1].text),
          formatted_start_date |-> formatted_start_date(entity.alert),
          formatted_end_date |-> formatted_end_date(entity.alert),
          l1_line_impacted |-> l1_line_impacted(entity.alert.informedEntity, FALSE)]
    ELSE None

\* ------------------------------------------------------ format_email_body
\* the keys of the processed alert, in the dict's insertion order
AlertKeys == <<"alert_id", "url", "title", "description_html",
               "formatted_start_date", "formatted_end_date", "l1_line_impacted">>

\* one "<field>: <value>\n" line per key; a line is the pair <<field, value>>
format_email_body(alert) ==
    [k \in 1..Len(AlertKeys) |-> <<AlertKeys[k], alert[AlertKeys[k]]>>]

\* the line "===\n"
Delimiter == <<"===">>

\* "===\n".join(blocks), as the sequence of the lines of the joined text
RECURSIVE Join(_)
Join(blocks) ==
    IF blocks = <<>> THEN <<>>
    ELSE IF Len(blocks) = 1 THEN blocks[1]
    ELSE blocks[1] \o <<Delimiter>> \o Join(Tail(blocks))

\* mutant: the blocks are collected newest first
EmailBodyContent_Reversed(alerts) ==
    [k \in 1..Len(alerts) |-> format_email_body(alerts[Len(alerts) + 1 - k])]

\* the list built by main's loop over alerts_to_email
EmailBodyContent(alerts) == [k \in 1..Len(alerts) |-> format_email_body(alerts[k])]

\* ------------------------------------------------------------------ state
VARIABLES
    tableExists,      \* the BigQuery table FULL_TABLE_ID exists
    rows,             \* its rows, in insertion order (a processed alert each)
    runNo,            \* invocations of main started so far
    pc,               \* per invocation slot: where main stands
    response_json,    \* per slot: what fetch_data returned
    idx,              \* per slot: index (from 1) of the entity in hand
    processed_alert,  \* per slot: processed_response_alert of the entity in hand
    alerts_to_email,  \* per slot: the pending notification list
    outcome,          \* per slot: "none", "returned" or "raised"
    result,           \* per slot: the tuple main returned, <<>> if none
    calls,            \* per slot: the collaborator calls of this run, in order
    mail,             \* per slot: the text handed to the mail transport, in order
    prev,             \* per slot: what the previous run of the slot left behind
    attempts,         \* per alert_id: the send_email calls whose body held it
    cpc,              \* process_response_alert on its own: "off", "ready", "done"
    centity,          \* the entity handed to it
    cresult,          \* what it returned
    tpc,              \* the timetable job's main: "off", "idle", "scan", "notify", "done"
    tresponse,        \* what its fetch_data returned
    ttarget,          \* what format_target_time returned
    tidx,             \* index (from 1) of the stop event in hand
    tfound,           \* found_target_time
    tresult,          \* the tuple it returned, <<>> if none
    tsends            \* how its send_email calls ended, in order

mainVars == <<tableExists, rows, runNo, pc, response_json, idx, processed_alert,
              alerts_to_email, outcome, result, calls, mail, prev, attempts>>

canonVars == <<cpc, centity, cresult>>

timetableVars == <<tpc, tresponse, ttarget, tidx, tfound, tresult, tsends>>

vars == <<mainVars, canonVars, timetableVars>>

NoPrev == [ran |-> FALSE]

\* process_response_alert is not looked at on its own
CanonOff ==
    /\ cpc = "off"
    /\ centity = None
    /\ cresult = None

\* the timetable job is not looked at
TimetableOff ==
    /\ tpc = "off"
    /\ tresponse = None
    /\ ttarget = <<>>
    /\ tidx = 1
    /\ tfound = FALSE
    /\ tresult = <<>>
    /\ tsends = <<>>

\* no invocation of main yet
MainInit ==
    /\ tableExists \in BOOLEAN
    /\ rows = <<>>
    /\ runNo = 0
    /\ pc = [r \in Runners |-> "idle"]
    /\ response_json = [r \in Runners |-> None]
    /\ idx = [r \in Runners |-> 1]
    /\ processed_alert = [r \in Runners |-> None]
    /\ alerts_to_email = [r \in Runners |-> <<>>]
    /\ outcome = [r \in Runners |-> "none"]
    /\ result = [r \in Runners |-> <<>>]
    /\ calls = [r \in Runners |-> <<>>]
    /\ mail = [r \in Runners |-> <<>>]
    /\ prev = [r \in Runners |-> NoPrev]
    /\ attempts = [id \in AlertIds |-> 0]

Init == MainInit /\ CanonOff /\ TimetableOff

\* ---------------------------------------------------------------- helpers
\* a logged call: the function, the index of the entity in hand (0 outside
\* the loop), the alert_id it was about ("-" if none) and how it ended
Call(op, i, id, res) == <<op, i, id, res>>

Logged(r, cs) == calls' = [calls EXCEPT ![r] = calls[r] \o cs]

\* the alert_ids whose insert completed in call list cs
InsertedIds(cs) ==
    {cs[k][3] : k \in {j \in 1..Len(cs) :
                          cs[j][1] = "insert_values_into_table" /\ cs[j][4] = "ok"}}

\* run r ended inside the loop over the entities: on an entity that could
\* not be processed, or on an exception of the existence query or the insert
AbortedInLoop(r) ==
    /\ pc[r] = "done"
    /\ calls[r] # <<>>
    /\ LET last == calls[r][Len(calls[r])]
       IN \/ last[1] = "process_response_alert" /\ last[4] = "none"
          \/ last[1] \in {"check_alert_id_is_unique", "insert_values_into_table"}
                /\ last[4] = "raised"

\* the alert_ids inserted by runs of slot r that then ended inside the loop
Lost(r) ==
    (IF prev[r].ran THEN prev[r].lost ELSE {})
        \cup (IF AbortedInLoop(r) THEN InsertedIds(calls[r]) ELSE {})

\* main returns tuple t
Return(r, t) ==
    /\ outcome' = [outcome EXCEPT ![r] = "returned"]
    /\ result' = [result EXCEPT ![r] = t]
    /\ pc' = [pc EXCEPT ![r] = "done"]

\* mutant: the exception is logged and swallowed, main carries on with the loop
Raise_Swallowed(r) ==
    /\ pc' = [pc EXCEPT ![r] = "loop"]
    /\ UNCHANGED <<outcome, result>>

\* an exception leaves main without a return value
Raise(r) ==
    /\ outcome' = [outcome EXCEPT ![r] = "raised"]
    /\ result' = [result EXCEPT ![r] = <<>>]
    /\ pc' = [pc EXCEPT ![r] = "done"]

Continue(r, where) ==
    /\ pc' = [pc EXCEPT ![r] = where]
    /\ UNCHANGED <<outcome, result>>

\* mutant: the query never finds a row
CountRows_None(alert_id) == 0

\* SELECT COUNT(*) ... WHERE alert_id = @alert_id
CountRows(alert_id) == Cardinality({k \in 1..Len(rows) : rows[k].alert_id = alert_id})

\* mutant: the count is compared with 1, not 0
id_exists_off_by_one(alert_id) == CountRows(alert_id) > 1

\* check_alert_id_is_unique's return value: TRUE when the id is in the table
id_exists(alert_id) == CountRows(alert_id) > 0

\* mutant: the "not" before check_alert_id_is_unique is taken for granted
IsNewAlert_IgnoreKnown(a, exists) == a.l1_line_impacted = TRUE

\* the condition of main's if: the alert is to be inserted and notified
IsNewAlert(a, exists) == a.l1_line_impacted = TRUE /\ ~exists

\* mutant: the test lets an empty list through
HasAlertsToEmail_OrEmpty(alerts) == Len(alerts) >= 0

\* the condition of main's if before send_email
HasAlertsToEmail(alerts) == Len(alerts) > 0

\* mutant: the @alert_id parameter is bound to the url
InsertRow_WrongKey(a) ==
    [alert_id |-> a.url,
     url |-> a.url,
     title |-> a.title,
     description_html |-> a.description_html,
     start_date |-> a.formatted_start_date,
     end_date |-> a.formatted_end_date,
     l1_line_impacted |-> a.l1_line_impacted]

\* the row the INSERT statement writes for a processed alert
\* (creation_date, the store's CURRENT_DATETIME, is left out)
InsertRow(a) ==
    [alert_id |-> a.alert_id,
     url |-> a.url,
     title |-> a.title,
     description_html |-> a.description_html,
     start_date |-> a.formatted_start_date,
     end_date |-> a.formatted_end_date,
     l1_line_impacted |-> a.l1_line_impacted]

Entities(r) == response_json[r].entity

\* what a step of main leaves alone besides its own variables
OthersUnchanged == UNCHANGED <<canonVars, timetableVars>>

\* mutant: the index moves on by two
Skip_Twice(r) ==
    /\ idx' = [idx EXCEPT ![r] = idx[r] + 2]
    /\ Continue(r, "loop")

\* mutant: the index stays where it is
Skip_Stay(r) ==
    /\ UNCHANGED idx
    /\ Continue(r, "loop")

\* "Skipping alert.": on to the next entity
Skip(r) ==
    /\ idx' = [idx EXCEPT ![r] = idx[r] + 1]
    /\ Continue(r, "loop")

\* ---------------------------------------------------------------- actions
\* mutant: the client is created and the table looked up before the None test
FetchOutcome_ClientFirst(r, p) ==
    IF p = None
    THEN /\ calls' = [calls EXCEPT ![r] = <<Call("fetch_data", 0, "-", "none"),
                                             Call("create_bq_client", 0, "-", "ok"),
                                             Call("check_table_exists", 0, "-",
                                                  IF tableExists THEN "true" ELSE "false")>>]
         /\ Return(r, <<"Error: The API response is invalid", 500>>)
    ELSE /\ calls' = [calls EXCEPT ![r] = <<Call("fetch_data", 0, "-", "ok")>>]
         /\ pc' = [pc EXCEPT ![r] = "provision"]
         /\ outcome' = [outcome EXCEPT ![r] = "none"]
         /\ result' = [result EXCEPT ![r] = <<>>]

\* what fetch_data's return value p leads to: the early return of main on
\* None, the table provisioning otherwise
FetchOutcome(r, p) ==
    IF p = None
    THEN /\ calls' = [calls EXCEPT ![r] = <<Call("fetch_data", 0, "-", "none")>>]
         /\ Return(r, <<"Error: The API response is invalid", 500>>)
    ELSE /\ calls' = [calls EXCEPT ![r] = <<Call("fetch_data", 0, "-", "ok")>>]
         /\ pc' = [pc EXCEPT ![r] = "provision"]
         /\ outcome' = [outcome EXCEPT ![r] = "none"]
         /\ result' = [result EXCEPT ![r] = <<>>]

\* mutant: the pending list of the slot's previous run is carried over
NewAlertsToEmail_Carried(r) == alerts_to_email[r]

\* alerts_to_email = []
NewAlertsToEmail(r) == <<>>

\* main is invoked: logging.info(gcp_arg); response_json = fetch_data()
Main_Fetch(r) ==
    /\ OthersUnchanged
    /\ pc[r] \in {"idle", "done"}
    /\ runNo < MaxRuns
    /\ runNo' = runNo + 1
    /\ \E p \in Payloads \cup {None} :
          /\ response_json' = [response_json EXCEPT ![r] = p]
          /\ prev' = [prev EXCEPT ![r] =
                        IF pc[r] = "idle" THEN NoPrev
                        ELSE [ran |-> TRUE,
                              same |-> (p = response_json[r]),
                              outcome |-> outcome[r],
                              result |-> result[r],
                              inserted |-> InsertedIds(calls[r]),
                              created |-> \E k \in 1..Len(calls[r]) :
                                             calls[r][k] = Call("create_new_table", 0, "-", "ok"),
                              lost |-> Lost(r)]]
          /\ FetchOutcome(r, p)
    /\ idx' = [idx EXCEPT ![r] = 1]
    /\ processed_alert' = [processed_alert EXCEPT ![r] = None]
    /\ alerts_to_email' = [alerts_to_email EXCEPT ![r] = NewAlertsToEmail(r)]
    /\ mail' = [mail EXCEPT ![r] = <<>>]
    /\ UNCHANGED <<tableExists, rows, attempts>>

\* mutant: create_new_table is called whatever check_table_exists returned
Main_CheckTable_AlwaysCreate(r) ==
    /\ OthersUnchanged
    /\ pc[r] = "provision"
    /\ \/ /\ Logged(r, <<Call("create_bq_client", 0, "-", "ok"),
                         Call("check_table_exists", 0, "-", "raised")>>)
          /\ Raise(r)
       \/ /\ Logged(r, <<Call("create_bq_client", 0, "-", "ok"),
                         Call("check_table_exists", 0, "-",
                              IF tableExists THEN "true" ELSE "false")>>)
          /\ Continue(r, "create")
    /\ UNCHANGED <<tableExists, rows, runNo, response_json, idx, processed_alert,
                   alerts_to_email, mail, prev, attempts>>

\* client = create_bq_client(); check_table_exists(client)
Main_CheckTable(r) ==
    /\ OthersUnchanged
    /\ pc[r] = "provision"
    /\ \/ /\ Logged(r, <<Call("create_bq_client", 0, "-", "ok"),
                         Call("check_table_exists", 0, "-", "raised")>>)
          /\ Raise(r)
       \/ /\ tableExists
          /\ Logged(r, <<Call("create_bq_client", 0, "-", "ok"),
                         Call("check_table_exists", 0, "-", "true")>>)
          /\ Continue(r, "loop")
       \/ /\ ~tableExists
          /\ Logged(r, <<Call("create_bq_client", 0, "-", "ok"),
                         Call("check_table_exists", 0, "-", "false")>>)
          /\ Continue(r, "create")
    /\ UNCHANGED <<tableExists, rows, runNo, response_json, idx, processed_alert,
                   alerts_to_email, mail, prev, attempts>>

\* create_new_table(client); creating a table that exists is a Conflict error
Main_CreateTable(r) ==
    /\ OthersUnchanged
    /\ pc[r] = "create"
    /\ \/ /\ ~tableExists
          /\ tableExists' = TRUE
          /\ Logged(r, <<Call("create_new_table", 0, "-", "ok")>>)
          /\ Continue(r, "loop")
       \/ /\ UNCHANGED tableExists
          /\ Logged(r, <<Call("create_new_table", 0, "-", "raised")>>)
          /\ Raise(r)
    /\ UNCHANGED <<rows, runNo, response_json, idx, processed_alert,
                   alerts_to_email, mail, prev, attempts>>

\* mutant: an entity that cannot be processed is skipped like an irrelevant one
AbortUnprocessable_Skip(r) ==
    /\ Logged(r, <<Call("process_response_alert", idx[r], "-", "none")>>)
    /\ Skip(r)

\* "if processed_response_alert is None: return (...)" for entity idx[r]
AbortUnprocessable(r) ==
    /\ Logged(r, <<Call("process_response_alert", idx[r], "-", "none")>>)
    /\ Return(r, <<"Error: Unable to process result", 500>>)
    /\ UNCHANGED idx

\* mutant: the operands of the if are swapped, the existence query comes first
Relevant_CheckedLater(a) == TRUE

\* mutant: the flag is tested for False
Relevant_Negated(a) == a.l1_line_impacted = FALSE

\* the first operand of main's if: processed_response_alert["l1_line_impacted"] == True
Relevant(a) == a.l1_line_impacted = TRUE

\* the head of the loop body: process_response_alert(entity), the None test
\* and the first operand of the if
Main_Process(r) ==
    /\ OthersUnchanged
    /\ pc[r] = "loop"
    /\ idx[r] <= Len(Entities(r))
    /\ LET a == process_response_alert(Entities(r)[idx[r]])
       IN /\ processed_alert' = [processed_alert EXCEPT ![r] = a]
          /\ IF a = None
             THEN AbortUnprocessable(r)
             ELSE /\ Logged(r, <<Call("process_response_alert", idx[r], a.alert_id, "ok")>>)
                  /\ IF Relevant(a)
                     THEN Continue(r, "check") /\ UNCHANGED idx
                     ELSE Skip(r)
    /\ UNCHANGED <<tableExists, rows, runNo, response_json, alerts_to_email, mail, prev,
                   attempts>>

\* check_alert_id_is_unique(client, processed_response_alert): the query
\* raises, or its count (logged as "known" or "new") decides the if
Main_CheckId(r) ==
    /\ OthersUnchanged
    /\ pc[r] = "check"
    /\ LET a == processed_alert[r]
           exists == id_exists(a.alert_id)
       IN \/ /\ Logged(r, <<Call("check_alert_id_is_unique", idx[r], a.alert_id, "raised")>>)
             /\ Raise(r)
             /\ UNCHANGED idx
          \/ /\ Logged(r, <<Call("check_alert_id_is_unique", idx[r], a.alert_id,
                                 IF exists THEN "known" ELSE "new")>>)
             /\ IF IsNewAlert(a, exists)
                THEN Continue(r, "insert") /\ UNCHANGED idx
                ELSE Skip(r)
    /\ UNCHANGED <<tableExists, rows, runNo, response_json, processed_alert,
                   alerts_to_email, mail, prev, attempts>>

\* mutant: the pending list is replaced by the one alert
AppendAlert_Overwrite(r, a) == <<a>>

\* alerts_to_email.append(processed_response_alert)
AppendAlert(r, a) == Append(alerts_to_email[r], a)

\* insert_values_into_table(client, processed_response_alert), then
\* alerts_to_email.append(processed_response_alert)
Main_Insert(r) ==
    /\ OthersUnchanged
    /\ pc[r] = "insert"
    /\ LET a == processed_alert[r]
       IN \/ /\ rows' = Append(rows, InsertRow(a))
             /\ alerts_to_email' = [alerts_to_email EXCEPT ![r] = AppendAlert(r, a)]
             /\ Logged(r, <<Call("insert_values_into_table", idx[r], a.alert_id, "ok")>>)
             /\ Skip(r)
          \/ /\ Logged(r, <<Call("insert_values_into_table", idx[r], a.alert_id, "raised")>>)
             /\ Raise(r)
             /\ UNCHANGED <<rows, alerts_to_email, idx>>
    /\ UNCHANGED <<tableExists, runNo, response_json, processed_alert, mail, prev, attempts>>

\* the attempts count after a send_email call over the list alerts
Attempted(alerts) ==
    [id \in AlertIds |->
        attempts[id] + Cardinality({j \in 1..Len(alerts) : alerts[j].alert_id = id})]

\* after the loop: send_email(email_body_content) if there is anything to send
Main_Notify(r) ==
    /\ OthersUnchanged
    /\ pc[r] = "loop"
    /\ idx[r] > Len(Entities(r))
    /\ IF HasAlertsToEmail(alerts_to_email[r])
       THEN LET body == Join(EmailBodyContent(alerts_to_email[r]))
            IN /\ attempts' = Attempted(alerts_to_email[r])
               /\ \/ /\ mail' = [mail EXCEPT ![r] = Append(mail[r], body)]
                     /\ Logged(r, <<Call("send_email", 0, "-", "true")>>)
                     /\ Return(r, <<"Complete.", 200>>)
                  \/ /\ Logged(r, <<Call("send_email", 0, "-", "none")>>)
                     /\ Return(r, <<"Error: Unable to send email.", 500>>)
                     /\ UNCHANGED mail
       ELSE /\ Return(r, <<"Complete.", 200>>)
            /\ UNCHANGED <<mail, calls, attempts>>
    /\ UNCHANGED <<tableExists, rows, runNo, response_json, idx, processed_alert,
                   alerts_to_email, prev>>

Step(r) ==
    \/ Main_Fetch(r)
    \/ Main_CheckTable(r)
    \/ Main_CreateTable(r)
    \/ Main_Process(r)
    \/ Main_CheckId(r)
    \/ Main_Insert(r)
    \/ Main_Notify(r)

\* one invocation at a time (the scheduler's non-overlap assumption)
Next == Step(1)

Spec == Init /\ [][Next]_vars

\* the steps of a run after its fetch
RunSteps(r) ==
    \/ Main_CheckTable(r)
    \/ Main_CreateTable(r)
    \/ Main_Process(r)
    \/ Main_CheckId(r)
    \/ Main_Insert(r)
    \/ Main_Notify(r)

\* every call of a started run returns or raises, so the run takes its next
\* step; nothing obliges the scheduler to invoke main again
SpecFair == Init /\ [][Next]_vars /\ WF_vars(RunSteps(1))

\* two invocations may be in flight at once
NextOverlap == \E r \in Runners : Step(r)

SpecOverlap == Init /\ [][NextOverlap]_vars

\* ------------------------------------- process_response_alert on its own
MaxPeriods == 2      \* most entries of an activePeriod list
MaxInformed == 2     \* most entries of an informedEntity list

\* record d without the keys in ks
Without(d, ks) == [k \in DOMAIN d \ ks |-> d[k]]

\* start and end values of the feed: two epoch texts and one int() rejects
RawTimes == EpochText \cup {"soon"}

\* activePeriod entries, with and without their start and end keys
PeriodPool ==
    {[start |-> a, end |-> b] : a \in RawTimes, b \in RawTimes}
        \cup {[start |-> a] : a \in RawTimes}
        \cup {[end |-> b] : b \in RawTimes}
        \cup {[note |-> "open"]}

\* informedEntity entries, with and without their directionId key
InformedPool ==
    {Route(x, d) : x \in {TARGET_ROUTE, "L2"}, d \in {0, 1, 2}}
        \cup {[routeId |-> x] : x \in {TARGET_ROUTE, "L2"}}

WithAlert(e, k, v) == [e EXCEPT !.alert = [e.alert EXCEPT ![k] = v]]

WellFormed == Entity("a1", <<Route(TARGET_ROUTE, 0)>>)

\* the entities process_response_alert is tried on: every activePeriod list,
\* every informedEntity list (each also with an empty activePeriod), and
\* every way of leaving out required keys or translations
CanonInputs ==
    {WithAlert(WellFormed, "activePeriod", ps) : ps \in SeqsUpTo(PeriodPool, MaxPeriods)}
        \cup {[WellFormed EXCEPT !.alert = Without(WellFormed.alert, {"activePeriod"})]}
        \cup {WithAlert(WithAlert(WellFormed, "informedEntity", ls), "activePeriod", ps) :
                 ls \in SeqsUpTo(InformedPool, MaxInformed),
                 ps \in {<<>>, WellFormed.alert.activePeriod}}
        \cup {[alert |-> Without(WithAlert(WellFormed, "informedEntity", ls).alert, ks)] :
                 ks \in SUBSET {"url", "headerText", "descriptionText", "informedEntity"},
                 ls \in {<<>>, <<Route(TARGET_ROUTE, 1)>>}}
        \cup {[id |-> "a2",
               alert |-> Without(WithAlert(WellFormed, "informedEntity", ls).alert, ks)] :
                 ks \in SUBSET {"url", "headerText", "descriptionText", "informedEntity"},
                 ls \in {<<>>, <<Route(TARGET_ROUTE, 1)>>}}
        \cup {WithAlert(WellFormed, k, [translation |-> <<>>]) :
                 k \in {"url", "headerText", "descriptionText"}}
        \cup {[id |-> "a1"]}

CanonInit ==
    /\ MainInit
    /\ TimetableOff
    /\ cpc = "ready"
    /\ centity \in CanonInputs
    /\ cresult = None

\* processed_response_alert = process_response_alert(entity)
Canon_Process ==
    /\ cpc = "ready"
    /\ cresult' = process_response_alert(centity)
    /\ cpc' = "done"
    /\ UNCHANGED <<centity, mainVars, timetableVars>>

CanonNext == Canon_Process

SpecCanon == CanonInit /\ [][CanonNext]_vars

\* ------------------------------------------------- the timetable job
\* lightrail_timetable_alert.py: is the target departure among the planned
\* departures of the station?
MaxStopEvents == 2

TARGET_DEPARTURE_HOUR == 7
TARGET_DEPARTURE_MINUTES == 50

\* Australia/Sydney is either 10 or 11 hours ahead of UTC
SydneyOffsets == {10, 11}

Digit(n) == <<"0", "1", "2", "3", "4", "5", "6", "7", "8", "9">>[n + 1]

\* strftime's %H and %M: two digits
TwoDigits(n) == <<Digit(n \div 10), Digit(n % 10)>>

\* the target time of day in UTC, "HH:MM", as a sequence of characters
format_target_time(offset) ==
    TwoDigits((TARGET_DEPARTURE_HOUR - offset) % 24) \o <<":">>
        \o TwoDigits(TARGET_DEPARTURE_MINUTES)

\* Python's `t in s` on strings
TargetIn(t, s) ==
    \E i \in 1..(Len(s) - Len(t) + 1) : SubSeq(s, i, i + Len(t) - 1) = t

\* "YYYY-MM-DDThh:mm:ssZ" as a sequence of characters
PlannedAt(hh, mm, ss) ==
    <<"2", "0", "2", "4", "-", "0", "3", "-", "0", "1", "T">>
        \o TwoDigits(hh) \o <<":">> \o TwoDigits(mm) \o <<":">> \o TwoDigits(ss) \o <<"Z">>

\* planned departures: the target of either season, near misses, and one
\* whose minutes and seconds read like the target
PlannedPool ==
    {PlannedAt(20, 50, 0), PlannedAt(21, 50, 0), PlannedAt(20, 56, 0),
     PlannedAt(10, 20, 50), PlannedAt(21, 5, 0)}

StopEvent(planned) == [departureTimePlanned |-> planned]

\* responses of the departure monitor: a stopEvents list of up to MaxStopEvents
TimetablePayloads ==
    {[stopEvents |-> evs] :
        evs \in SeqsUpTo({StopEvent(t) : t \in PlannedPool}, MaxStopEvents)}

EMAIL_BODY == "No 7:50 depature found"

\* the timetable main is about to be invoked
TimetableInit ==
    /\ MainInit
    /\ CanonOff
    /\ tpc = "start"
    /\ tresponse = None
    /\ ttarget = <<>>
    /\ tidx = 1
    /\ tfound = FALSE
    /\ tresult = <<>>
    /\ tsends = <<>>

\* response_json = fetch_data(); None check; target_time = format_target_time()
Timetable_Fetch ==
    /\ tpc = "start"
    /\ \E p \in TimetablePayloads \cup {None} :
          /\ tresponse' = p
          /\ IF p = None
             THEN /\ tresult' = <<"Error: The API response is invalid", 500>>
                  /\ tpc' = "done"
                  /\ UNCHANGED ttarget
             ELSE /\ \E offset \in SydneyOffsets : ttarget' = format_target_time(offset)
                  /\ tpc' = "scan"
                  /\ UNCHANGED tresult
    /\ tidx' = 1
    /\ tfound' = FALSE
    /\ UNCHANGED <<tsends, mainVars, canonVars>>

\* one iteration of the loop over response_json["stopEvents"]
Timetable_Scan ==
    /\ tpc = "scan"
    /\ tidx <= Len(tresponse.stopEvents)
    /\ IF TargetIn(ttarget, tresponse.stopEvents[tidx].departureTimePlanned)
       THEN /\ tfound' = TRUE
            /\ tpc' = "notify"
            /\ UNCHANGED tidx
       ELSE /\ tidx' = tidx + 1
            /\ UNCHANGED <<tfound, tpc>>
    /\ UNCHANGED <<tresponse, ttarget, tresult, tsends, mainVars, canonVars>>

\* mutant: the email is sent whether or not the time was found
ShouldSend_Always(found) == TRUE

\* if not found_target_time
ShouldSend(found) == ~found

\* after the loop: send the alert if the time was not found, then return
Timetable_Notify ==
    /\ \/ tpc = "notify"
       \/ tpc = "scan" /\ tidx > Len(tresponse.stopEvents)
    /\ tpc' = "done"
    /\ IF ShouldSend(tfound)
       THEN \/ /\ tsends' = Append(tsends, <<EMAIL_BODY, "true">>)
               /\ tresult' = <<"Complete.", 200>>
            \/ /\ tsends' = Append(tsends, <<EMAIL_BODY, "none">>)
               /\ tresult' = <<"Error: Unable to send email.", 500>>
       ELSE /\ tresult' = <<"Complete.", 200>>
            /\ UNCHANGED tsends
    /\ UNCHANGED <<tresponse, ttarget, tidx, tfound, mainVars, canonVars>>

TimetableNext ==
    \/ Timetable_Fetch
    \/ Timetable_Scan
    \/ Timetable_Notify

SpecTimetable == TimetableInit /\ [][TimetableNext]_vars

\* ------------------------------------------------------------ observations
COMPLETE == <<"Complete.", 200>>
API_INVALID == <<"Error: The API response is invalid", 500>>
UNPROCESSABLE == <<"Error: Unable to process result", 500>>
EMAIL_FAILED == <<"Error: Unable to send email.", 500>>

StoreOps == {"create_bq_client", "check_table_exists", "create_new_table",
             "check_alert_id_is_unique", "insert_values_into_table"}

InCalls(r, c) == \E k \in 1..Len(calls[r]) : calls[r][k] = c

\* the positions in run r's call list of the calls of function op
CallsOf(r, op) == {k \in 1..Len(calls[r]) : calls[r][k][1] = op}

\* ---------------------------------------------------------------- claims
\* C1: however many runs of main follow one another without overlapping, and
\* whatever their payloads (one id may occur several times in a payload), no
\* two rows of the table have the same alert_id.
C1_UniqueAlertId ==
    \A i, j \in 1..Len(rows) : rows[i].alert_id = rows[j].alert_id => i = j

\* a second run whose payload names "a1" twice: inserted at the first
\* occurrence, found known at the second, next to the row of an earlier run
C1_Witness ==
    /\ runNo = 2
    /\ pc[1] = "done"
    /\ Len(rows) = 2
    /\ InCalls(1, Call("insert_values_into_table", 1, "a1", "ok"))
    /\ InCalls(1, Call("check_alert_id_is_unique", 2, "a1", "known"))

C3_DuplicateRejected ==
    \A id \in AlertIds :
        (\A r \in Runners :
            \E i \in 1..MaxFeedLen : InCalls(r, Call("check_alert_id_is_unique", i, id, "new")))
        => /\ CountRows(id) <= 1
           /\ \E r \in Runners :
                 \A i \in 1..MaxFeedLen :
                    ~InCalls(r, Call("insert_values_into_table", i, id, "ok"))

\* C4: when process_response_alert fails on entity i, main returns a 500
\* result there: that call is the last of the run, so no later entity is
\* processed, looked up or inserted, and send_email is not called.
C4_MalformedAborts ==
    \A r \in Runners :
        \A k \in 1..Len(calls[r]) :
            (/\ calls[r][k][1] = "process_response_alert"
             /\ ~Extractable(Entities(r)[calls[r][k][2]]))
            => /\ k = Len(calls[r])
               /\ pc[r] = "done"
               /\ outcome[r] = "returned"
               /\ result[r] = UNPROCESSABLE
               /\ idx[r] = calls[r][k][2]
               /\ CallsOf(r, "send_email") = {}

\* a run stopped by its malformed first entity, with a relevant alert that is
\* not in the table behind it
C4_Witness ==
    /\ pc[1] = "done"
    /\ result[1] = UNPROCESSABLE
    /\ Len(Entities(1)) = 2
    /\ idx[1] = 1
    /\ ~Extractable(Entities(1)[1])
    /\ Extractable(Entities(1)[2])
    /\ Relevant(process_response_alert(Entities(1)[2]))
    /\ ~id_exists(Entities(1)[2].id)

\* C5: when fetch_data yields no payload, main returns
\* ("Error: The API response is invalid", 500) and the run makes no store
\* call and no mail call.
C5_FetchFailure ==
    \A r \in Runners :
        (pc[r] # "idle" /\ response_json[r] = None) =>
            /\ pc[r] = "done"
            /\ outcome[r] = "returned"
            /\ result[r] = API_INVALID
            /\ \A k \in 1..Len(calls[r]) : calls[r][k][1] \notin StoreOps \cup {"send_email"}
            /\ mail[r] = <<>>

\* a failed fetch after a run that had inserted rows
C5_Witness ==
    /\ pc[1] = "done"
    /\ response_json[1] = None
    /\ prev[1].ran
    /\ prev[1].inserted # {}
    /\ Len(rows) > 0

\* the insert calls of run r that went through, in call order
InsertsOk(r) ==
    SelectSeq(calls[r], LAMBDA c : c[1] = "insert_values_into_table" /\ c[4] = "ok")

\* call c of run r ended in "Skipping alert.": the entity is not relevant, or
\* the existence check reported it known
IsSkip(r, c) ==
    \/ /\ c[1] = "process_response_alert"
       /\ c[4] = "ok"
       /\ ~l1_line_impacted(Entities(r)[c[2]].alert.informedEntity, FALSE)
    \/ /\ c[1] = "check_alert_id_is_unique"
       /\ c[4] = "known"

\* C6: an insert is made only for a relevant alert, right after the existence
\* check of that alert in that run reported it not known; the pending list
\* holds exactly the inserted alerts; an entity that is not relevant or is
\* known gets no insert and the loop goes on to the next entity.
C6_InsertOnlyNewRelevant ==
    \A r \in Runners :
        /\ \A k \in CallsOf(r, "insert_values_into_table") :
              LET i == calls[r][k][2]
                  id == calls[r][k][3]
              IN /\ k > 1
                 /\ calls[r][k - 1] = Call("check_alert_id_is_unique", i, id, "new")
                 /\ Entities(r)[i].id = id
                 /\ l1_line_impacted(Entities(r)[i].alert.informedEntity, FALSE)
        /\ Len(alerts_to_email[r]) = Len(InsertsOk(r))
        /\ \A j \in 1..Len(InsertsOk(r)) :
              alerts_to_email[r][j] = process_response_alert(Entities(r)[InsertsOk(r)[j][2]])
        /\ \A k \in 1..Len(calls[r]) :
              IsSkip(r, calls[r][k]) =>
                 LET i == calls[r][k][2]
                 IN /\ \A m \in CallsOf(r, "insert_values_into_table") : calls[r][m][2] # i
                    /\ k < Len(calls[r]) =>
                          \/ calls[r][k + 1][1] = "process_response_alert"
                                /\ calls[r][k + 1][2] = i + 1
                          \/ calls[r][k + 1][1] = "send_email" /\ i = Len(Entities(r))
                    /\ k = Len(calls[r]) =>
                          /\ outcome[r] # "raised"
                          /\ \/ pc[r] = "loop" /\ idx[r] = i + 1
                             \/ pc[r] = "done" /\ result[r] = COMPLETE /\ i = Len(Entities(r))

\* a run that skipped the known alert at entity 1 and inserted the new one at
\* entity 2
C6_Witness ==
    /\ pc[1] = "done"
    /\ \E id \in AlertIds : InCalls(1, Call("check_alert_id_is_unique", 1, id, "known"))
    /\ \E id \in AlertIds : InCalls(1, Call("insert_values_into_table", 2, id, "ok"))
    /\ Len(alerts_to_email[1]) = 1

\* C7: a run calls send_email at most once, and exactly when the loop went
\* through all entities and left a non-empty pending list; with an empty
\* pending list the run returns ("Complete.", 200) without calling it.
C7_MailOnceIffPending ==
    \A r \in Runners :
        LET sends == CallsOf(r, "send_email")
            drained == /\ pc[r] = "done"
                       /\ outcome[r] = "returned"
                       /\ response_json[r] # None
                       /\ idx[r] = Len(Entities(r)) + 1
        IN /\ Cardinality(sends) <= 1
           /\ Len(mail[r]) <= 1
           /\ (sends # {}) <=> (drained /\ alerts_to_email[r] # <<>>)
           /\ (drained /\ alerts_to_email[r] = <<>>) => (result[r] = COMPLETE /\ mail[r] = <<>>)

\* a finished run whose two inserted alerts went out in its one mail
C7_Witness ==
    /\ pc[1] = "done"
    /\ Len(alerts_to_email[1]) = 2
    /\ Cardinality(CallsOf(1, "send_email")) = 1
    /\ Len(mail[1]) = 1

\* the rows of the table with alert_id id
RowsOf(id) == {k \in 1..Len(rows) : rows[k].alert_id = id}

C9_AlwaysReturnsResult ==
    \A r \in Runners :
        pc[r] = "done" =>
            /\ outcome[r] = "returned"
            /\ result[r] \in {COMPLETE, API_INVALID, UNPROCESSABLE, EMAIL_FAILED}

\* C10: the mail body holds one block of "<field>: <value>" lines per alert
\* the run inserted, the blocks in the order the alerts came in the feed, a
\* "===" line between consecutive blocks.
C10_BodyBlocksInFeedOrder ==
    \A r \in Runners :
        \A b \in 1..Len(mail[r]) :
            LET body == mail[r][b]
                ins == InsertsOk(r)
                n == Len(ins)
                w == Len(AlertKeys)
            IN /\ n >= 1
               /\ Len(body) = n * w + (n - 1)
               /\ \A j \in 1..n :
                     LET a == process_response_alert(Entities(r)[ins[j][2]])
                         base == (j - 1) * (w + 1)
                     IN /\ \A k \in 1..w : body[base + k] = <<AlertKeys[k], a[AlertKeys[k]]>>
                        /\ j < n => /\ body[base + w + 1] = Delimiter
                                    /\ ins[j][2] < ins[j + 1][2]

\* a mail with the blocks of two alerts, "a2" before "a1" as in the feed
C10_Witness ==
    /\ Len(mail[1]) = 1
    /\ Len(InsertsOk(1)) = 2
    /\ InsertsOk(1)[1][3] = "a2"
    /\ InsertsOk(1)[2][3] = "a1"
    /\ mail[1][1][1] = <<"alert_id", "a2">>

\* the text entity["alert"][k]["translation"][0]["text"] is there
HasText(e, k) == Has(e, "alert") /\ Has(e.alert, k) /\ HasFirstText(e.alert[k])

\* id, url, title and description are all there
HasRequired(e) ==
    /\ Has(e, "id")
    /\ HasText(e, "url")
    /\ HasText(e, "headerText")
    /\ HasText(e, "descriptionText")

\* C11: the relevance flag is true exactly when some entry of the
\* informed-entity list has the configured route with direction 0 or 1; an
\* empty list gives false and no failure; the configured route with another
\* direction does not count; the position of the entries does not matter.
C11_RelevanceIffRouteAndDirection ==
    (/\ cpc = "done"
     /\ HasRequired(centity)
     /\ Has(centity.alert, "informedEntity")
     /\ \A i \in 1..Len(centity.alert.informedEntity) :
           DOMAIN centity.alert.informedEntity[i] = {"routeId", "directionId"})
    => /\ cresult # None
       /\ cresult.l1_line_impacted =
             (\E i \in 1..Len(centity.alert.informedEntity) :
                 /\ centity.alert.informedEntity[i].routeId = TARGET_ROUTE
                 /\ centity.alert.informedEntity[i].directionId \in {0, 1})

\* the matching entry comes first, an entry of the route in direction 2 last
C11_Witness ==
    /\ cpc = "done"
    /\ cresult # None
    /\ cresult.l1_line_impacted = TRUE
    /\ centity.alert.informedEntity = <<Route(TARGET_ROUTE, 1), Route(TARGET_ROUTE, 2)>>

\* the start of the first activePeriod entry can be read and parsed
StartOk(e) ==
    /\ Has(e.alert, "activePeriod")
    /\ e.alert.activePeriod # <<>>
    /\ Has(e.alert.activePeriod[1], "start")
    /\ e.alert.activePeriod[1].start \in EpochText

\* the end of the last activePeriod entry can be read and parsed
EndOk(e) ==
    /\ Has(e.alert, "activePeriod")
    /\ e.alert.activePeriod # <<>>
    /\ Has(e.alert.activePeriod[Len(e.alert.activePeriod)], "end")
    /\ e.alert.activePeriod[Len(e.alert.activePeriod)].end \in EpochText

\* C12: whatever the activePeriod of an entity with its required fields, a
\* record is produced; start_date is "NULL" exactly when the start is
\* missing, empty or unparsable and end_date exactly when the end is, each
\* whatever the other; the other fields are as read from the entity.
C12_TimestampsDegrade ==
    (/\ cpc = "done"
     /\ HasRequired(centity)
     /\ Has(centity.alert, "informedEntity")
     /\ \A i \in 1..Len(centity.alert.informedEntity) :
           DOMAIN centity.alert.informedEntity[i] = {"routeId", "directionId"})
    => /\ cresult # None
       /\ cresult.formatted_start_date =
             IF StartOk(centity) THEN Strftime(centity.alert.activePeriod[1].start)
             ELSE "NULL"
       /\ cresult.formatted_end_date =
             IF EndOk(centity)
             THEN Strftime(centity.alert.activePeriod[Len(centity.alert.activePeriod)].end)
             ELSE "NULL"
       /\ cresult.alert_id = centity.id
       /\ cresult.url = centity.alert.url.translation[1].text
       /\ cresult.title = centity.alert.headerText.translation[1].text

\* an unparsable start in the first entry, a good end in the last
C12_Witness ==
    /\ cpc = "done"
    /\ cresult # None
    /\ Has(centity.alert, "activePeriod")
    /\ Len(centity.alert.activePeriod) = 2
    /\ ~StartOk(centity)
    /\ EndOk(centity)
    /\ cresult.formatted_start_date = "NULL"
    /\ cresult.formatted_end_date # "NULL"

\* C14: process_response_alert fails when id, url, title or description is
\* missing; with the four there and an empty informed-entity list it
\* produces a record whose relevance flag is false.
C14_RequiredFields ==
    cpc = "done" =>
        /\ ~HasRequired(centity) => cresult = None
        /\ (/\ HasRequired(centity)
            /\ Has(centity.alert, "informedEntity")
            /\ centity.alert.informedEntity = <<>>)
           => /\ cresult # None
              /\ cresult.l1_line_impacted = FALSE

\* an entity that lacks nothing but its url, processed
C14_Witness ==
    /\ cpc = "done"
    /\ cresult = None
    /\ Has(centity, "id")
    /\ Has(centity, "alert")
    /\ DOMAIN centity.alert = {"headerText", "descriptionText", "activePeriod", "informedEntity"}

\* C13: when the existence query or the insert raises for an alert, that
\* call is the last of the run: main is left by the exception, the pending
\* list holds the inserted alerts only, a failed insert leaves it without a row, no later entity is
\* processed and send_email is not called.
C13_StoreFailureStopsRun ==
    \A r \in Runners :
        \A k \in 1..Len(calls[r]) :
            (/\ calls[r][k][1] \in {"check_alert_id_is_unique", "insert_values_into_table"}
             /\ calls[r][k][4] = "raised")
            => LET i == calls[r][k][2]
                   id == calls[r][k][3]
               IN /\ k = Len(calls[r])
                  /\ pc[r] = "done"
                  /\ outcome[r] = "raised"
                  /\ idx[r] = i
                  /\ CallsOf(r, "send_email") = {}
                  /\ \A m \in CallsOf(r, "insert_values_into_table") :
                        calls[r][m][2] = i => (m = k /\ calls[r][m][4] = "raised")
                  /\ Len(alerts_to_email[r]) = Len(InsertsOk(r))
                  /\ calls[r][k][1] = "insert_values_into_table" => CountRows(id) = 0

\* the insert of entity 2 raised after entity 1 had been inserted
C13_Witness ==
    /\ pc[1] = "done"
    /\ outcome[1] = "raised"
    /\ Len(alerts_to_email[1]) = 1
    /\ \E id \in AlertIds : InCalls(1, Call("insert_values_into_table", 2, id, "raised"))

\* the positions of the process_response_alert calls of run r up to position k
ProcessedUpTo(r, k) == {m \in CallsOf(r, "process_response_alert") : m <= k}

\* C15: a run takes the entities one by one in feed order: the j-th
\* process_response_alert call is for entity j, the existence query and the
\* insert of an entity come before the next entity is processed, a run that
\* went through the loop processed every entity, and the one send_email call
\* comes after every insert, as the last call.
C15_FeedOrder ==
    \A r \in Runners :
        /\ \A k \in 1..Len(calls[r]) :
              LET c == calls[r][k]
              IN /\ c[1] = "process_response_alert"
                    => c[2] = Cardinality(ProcessedUpTo(r, k))
                 /\ c[1] \in {"check_alert_id_is_unique", "insert_values_into_table"}
                    => /\ c[2] = Cardinality(ProcessedUpTo(r, k))
                       /\ c[2] >= 1
                 /\ (c[1] = "insert_values_into_table" /\ c[4] = "ok" /\ k < Len(calls[r]))
                    => \/ calls[r][k + 1][1] = "process_response_alert"
                             /\ calls[r][k + 1][2] = c[2] + 1
                       \/ calls[r][k + 1][1] = "send_email"
                 /\ c[1] = "send_email"
                    => /\ k = Len(calls[r])
                       /\ Cardinality(CallsOf(r, "send_email")) = 1
        /\ (pc[r] = "done" /\ result[r] \in {COMPLETE, EMAIL_FAILED})
              => Cardinality(CallsOf(r, "process_response_alert")) = Len(Entities(r))

\* two entities inserted in turn, then the mail
C15_Witness ==
    /\ pc[1] = "done"
    /\ Len(InsertsOk(1)) = 2
    /\ InsertsOk(1)[1][2] = 1
    /\ InsertsOk(1)[2][2] = 2
    /\ CallsOf(1, "send_email") # {}

\* C16: create_new_table is called only when the table is absent, right after
\* check_table_exists of the same run returned False; a table that exists
\* stays, no step takes rows away or changes them, and the creation leaves
\* the rows as they were.
C16_CreateIfAbsent ==
    [][\A r \in Runners :
          /\ tableExists => tableExists'
          /\ Len(rows') >= Len(rows)
          /\ SubSeq(rows', 1, Len(rows)) = rows
          /\ (/\ calls'[r] # calls[r]
              /\ calls'[r][Len(calls'[r])][1] = "create_new_table")
             => /\ ~tableExists
                /\ rows' = rows
                /\ calls[r][Len(calls[r])] = Call("check_table_exists", 0, "-", "false")]_vars

\* a run that found the table its predecessor had created, rows and all
C16_Witness ==
    /\ prev[1].ran
    /\ prev[1].created
    /\ prev[1].inserted # {}
    /\ InCalls(1, Call("check_table_exists", 0, "-", "true"))
    /\ rows # <<>>
    /\ pc[1] = "done"

\* the alert_ids of a pending list
PendingIds(alerts) == {alerts[j].alert_id : j \in 1..Len(alerts)}

\* C19: over sequential runs every alert_id is part of at most one send_email
\* call: a run's pending list holds no alert_id twice, and an alert_id that
\* was in a send_email call (whether it returned True or None) is in no later
\* run's pending list.
C19_AtMostOneSendAttempt ==
    /\ \A id \in AlertIds : attempts[id] <= 1
    /\ \A r \in Runners :
          /\ Cardinality(PendingIds(alerts_to_email[r])) = Len(alerts_to_email[r])
          /\ \A id \in PendingIds(alerts_to_email[r]) :
                attempts[id] = 1 => CallsOf(r, "send_email") # {}

\* the send of the previous run failed; this run met the same alert again,
\* found it known and finished without mailing it
C19_Witness ==
    /\ prev[1].ran
    /\ prev[1].result = EMAIL_FAILED
    /\ pc[1] = "done"
    /\ result[1] = COMPLETE
    /\ \E id \in prev[1].inserted :
          /\ attempts[id] = 1
          /\ \E i \in 1..MaxFeedLen :
                InCalls(1, Call("check_alert_id_is_unique", i, id, "known"))

\* C20: the rows a run inserted before it ended inside the loop stay in the
\* table, that run calls send_email not at all, and the alert_ids of those
\* rows are in no send_email call and in no later run's pending list.
C20_AbortedRunRowsNeverMailed ==
    \A r \in Runners :
        /\ AbortedInLoop(r) => (CallsOf(r, "send_email") = {} /\ mail[r] = <<>>)
        /\ \A id \in Lost(r) :
              /\ CountRows(id) >= 1
              /\ attempts[id] = 0
        /\ prev[r].ran => prev[r].lost \cap PendingIds(alerts_to_email[r]) = {}

\* the previous run inserted an alert and then ended inside the loop; this
\* run met that alert again, found it known, and mailed another alert
C20_Witness ==
    /\ prev[1].ran
    /\ pc[1] = "done"
    /\ result[1] = COMPLETE
    /\ CallsOf(1, "send_email") # {}
    /\ \E id \in prev[1].lost :
          \E i \in 1..MaxFeedLen :
              InCalls(1, Call("check_alert_id_is_unique", i, id, "known"))

\* some stop event's departureTimePlanned contains the target time
AnyPlannedMatches ==
    \E k \in 1..Len(tresponse.stopEvents) :
        \E i \in 1..Len(tresponse.stopEvents[k].departureTimePlanned) :
            /\ i + Len(ttarget) - 1 <= Len(tresponse.stopEvents[k].departureTimePlanned)
            /\ \A j \in 1..Len(ttarget) :
                  tresponse.stopEvents[k].departureTimePlanned[i + j - 1] = ttarget[j]

C18_SinglePassTerminates ==
    /\ [](\A k1, k2 \in CallsOf(1, "process_response_alert") :
              calls[1][k1][2] = calls[1][k2][2] => k1 = k2)
    /\ (pc[1] \notin {"idle", "done"}) ~> (pc[1] = "done" /\ outcome[1] \in {"returned", "raised"})
    /\ [][runNo' # runNo =>
              /\ pc[1] \in {"idle", "done"}
              /\ idx'[1] = 1
              /\ alerts_to_email'[1] = <<>>
              /\ processed_alert'[1] = None
              /\ mail'[1] = <<>>
              /\ Len(calls'[1]) = 1
              /\ calls'[1][1][1] = "fetch_data"]_vars

\* a second run that went through a feed of two entities to its end, after a
\* first run that had been left by an exception with an alert pending
C18_Witness ==
    /\ prev[1].ran
    /\ prev[1].outcome = "raised"
    /\ prev[1].inserted # {}
    /\ pc[1] = "done"
    /\ Cardinality(CallsOf(1, "process_response_alert")) = 2

\* the number of completed inserts of alert_id id in call list cs
InsertCount(cs, id) ==
    Cardinality({k \in 1..Len(cs) :
                    /\ cs[k][1] = "insert_values_into_table"
                    /\ cs[k][3] = id
                    /\ cs[k][4] = "ok"})

\* C21: on the step that calls send_email, whatever it returns, the alerts
\* handed over are exactly the alerts this run inserted before, in that
\* order, at least one, and each of them has its row in the table at that
\* moment.
C21_NotifiedWereInserted ==
    [][\A r \in Runners :
          (/\ calls'[r] # calls[r]
           /\ calls'[r][Len(calls'[r])][1] = "send_email")
          => LET ins == InsertsOk(r)
             IN /\ Len(ins) >= 1
                /\ Len(alerts_to_email[r]) = Len(ins)
                /\ \A j \in 1..Len(ins) :
                      /\ alerts_to_email[r][j].alert_id = ins[j][3]
                      /\ \E k \in 1..Len(rows) : rows[k] = InsertRow(alerts_to_email[r][j])
                      /\ \E k \in 1..Len(rows') : rows'[k] = InsertRow(alerts_to_email[r][j])
                /\ \A id \in AlertIds :
                      attempts'[id] = attempts[id] + InsertCount(calls[r], id)]_vars

\* a send_email call that failed, made for the two alerts the run had
\* inserted, both with their row
C21_Witness ==
    /\ InCalls(1, Call("send_email", 0, "-", "none"))
    /\ Len(InsertsOk(1)) = 2
    /\ \A j \in 1..2 : RowsOf(InsertsOk(1)[j][3]) # {}
    /\ attempts = [id \in AlertIds |-> 1]

\* C22: every row of the table has l1_line_impacted true, and a run makes the
\* existence query and the insert only for entities whose alert is relevant:
\* for an entity that is not, the call after process_response_alert is the
\* processing of the next entity, or send_email, or none.
C22_OnlyRelevantPersisted ==
    /\ \A k \in 1..Len(rows) : rows[k].l1_line_impacted = TRUE
    /\ \A r \in Runners :
          \A k \in 1..Len(calls[r]) :
              LET c == calls[r][k]
              IN /\ c[1] \in {"check_alert_id_is_unique", "insert_values_into_table"}
                    => process_response_alert(Entities(r)[c[2]]).l1_line_impacted = TRUE
                 /\ (/\ c[1] = "process_response_alert"
                     /\ c[4] = "ok"
                     /\ process_response_alert(Entities(r)[c[2]]).l1_line_impacted = FALSE
                     /\ k < Len(calls[r]))
                    => calls[r][k + 1][1] \in {"process_response_alert", "send_email"}

\* the second of two runs: it passed over an entity that is not relevant
\* without a query and inserted the relevant one next to it
C22_Witness ==
    /\ runNo = 2
    /\ pc[1] = "done"
    /\ rows # <<>>
    /\ \E i \in 1..MaxFeedLen :
          /\ \E id \in AlertIds : InCalls(1, Call("process_response_alert", i, id, "ok"))
          /\ process_response_alert(Entities(1)[i]).l1_line_impacted = FALSE
          /\ \A k \in CallsOf(1, "check_alert_id_is_unique") : calls[1][k][2] # i
    /\ InsertsOk(1) # <<>>

====
